---- MODULE Spec2Model ----
(***************************************************************************)
(* TargetPool of syntest-solidity (src/src/search/sampling/                *)
(* SoliditySampler.ts): the pool that memoizes sources, ASTs, target maps, *)
(* function maps, CFGs and assembled Targets per file.                     *)
(*                                                                         *)
(* Every method of the pool is an operator from (pool state, world,        *)
(* arguments) to a result [s, ok, val]: the pool state after the call,     *)
(* whether the call returned (ok) or threw, and the value returned or      *)
(* thrown.  JavaScript runs each method to completion, so one call is one  *)
(* action.                                                                 *)
(*                                                                         *)
(* SolidityLauncher.run and collectProbeCoverageData (src/src/             *)
(* SolidityLauncher.ts), which use the pool, are modelled in               *)
(* specifications of their own: the run segment by segment, the statistics *)
(* objective by objective.                                                 *)
(***************************************************************************)
EXTENDS Integers, Sequences, FiniteSets, TLC

\* ------------------------------------------------------------------ bounds

\* The tasks that the event loop runs in the line-by-line specification.
MaxTasks == 2

\* The objectives of an archive, and the traces of one execution result.
MaxObjectives == 2

MaxTraces == 2

\* A generator is invoked at most this many times for one file (or key).
MaxGenCalls == 3

\* Generator invocations that throw, over all generators and files.
MaxFailures == 2

\* ------------------------------------------------------------------- paths

\* A path is a sequence of segments; an absolute path starts with "/".
Cwd == <<"/", "w">>

RawPaths ==
  { <<"a.sol">>,
    <<"/", "w", "x", "..", "a.sol">>,
    <<".", "b.sol">> }

isAbsolute(p) == Len(p) > 0 /\ p[1] = "/"

RECURSIVE normalize(_, _)
\* path.normalize over the segments: "." is dropped, ".." removes the
\* segment before it (never the root).
normalize(acc, rest) ==
  IF rest = <<>> THEN acc
  ELSE LET seg == Head(rest)
           acc1 == IF seg = "." THEN acc
                   ELSE IF seg = ".."
                        THEN (IF Len(acc) > 1 THEN SubSeq(acc, 1, Len(acc) - 1) ELSE acc)
                        ELSE Append(acc, seg)
       IN normalize(acc1, Tail(rest))

\* path.resolve(targetPath): relative paths are taken from the working
\* directory, then the result is normalized.
pathResolve(targetPath) ==
  IF isAbsolute(targetPath)
  THEN normalize(<<"/">>, Tail(targetPath))
  ELSE normalize(Cwd, targetPath)

AbsPaths == { pathResolve(r) : r \in RawPaths }

\* The files of the project: those the raw paths name, and one that is only
\* reached through import statements.
ProjectFiles == AbsPaths \cup { <<"/", "w", "c.sol">> }

\* path.resolve over the paths that occur, computed once.
resolved == [p \in RawPaths \cup ProjectFiles |-> pathResolve(p)]

resolve(targetPath) == resolved[targetPath]

\* --------------------------------------------------------------- the world

\* What a file holds when a generator looks at it: it cannot be read, or it
\* holds text that parses and maps, text that does not parse, or text that
\* parses but on which the target-map generator throws.
FileStates == { "unreadable", "good", "badSyntax", "badMap" }

Worlds == [ProjectFiles -> FileStates]

TargetNames == { "A", "B", "DoesNotExist" }

\* -------------------------------------------------------------------- maps

EmptyMap == << >>

has(m, k) == k \in DOMAIN m

set(m, k, v) == (k :> v) @@ m

RECURSIVE Sum(_, _)
\* The sum of f over the keys S.
Sum(f, S) ==
  IF S = {} THEN 0
  ELSE LET x == CHOOSE x \in S : TRUE IN f[x] + Sum(f, S \ {x})

\* ------------------------------------------------------------------- state

VARIABLES
  pool,      \* the TargetPool: its fields, and how often it invoked each generator
  last,      \* the call that was made last and how it ended
  returned,  \* what getAST, getCFG and createTarget have returned so far
  project,   \* what the files of the project hold: imports and declarations
  sched,     \* the tasks of the event loop and their call stacks, line by line
  an,        \* a run of the DependencyAnalyzer, iteration by iteration
  multi,     \* two pools on one heap of Map objects
  launcher,  \* a run of SolidityLauncher.run, segment by segment
  stats      \* a call of collectProbeCoverageData, objective by objective

vars == << pool, last, returned, project, sched, an, multi, launcher, stats >>

\* The import statements of file p, in source order.
ImportsOf(p) == project[p].imports

\* The contract-like declarations of file p.
Declared(p) == DOMAIN project[p].targets

\* The parents that target targetName of file p names in its "is" clause, as
\* written.
DeclaredParents(p, targetName) == project[p].targets[targetName]

\* contract A {} contract B is A {} in a.sol; contract B {} in b.sol; c.sol is
\* empty.  No file imports another.
OneFileProject ==
  [p \in ProjectFiles |->
     IF p = <<"/", "w", "a.sol">>
     THEN [imports |-> << >>, targets |-> ("A" :> << >>) @@ ("B" :> <<"A">>)]
     ELSE IF p = <<"/", "w", "b.sol">>
          THEN [imports |-> << >>, targets |-> ("B" :> << >>)]
          ELSE [imports |-> << >>, targets |-> << >>]]

R(s, ok, val) == [s |-> s, ok |-> ok, val |-> val]

Keys == ProjectFiles \X TargetNames

NoCalls == [p \in ProjectFiles |-> 0]

\* The fields that the constructor assigns a new Map to (lines 78-85).
FileCaches ==
  { "sources", "abstractSyntaxTrees", "targetMap", "functionMaps", "controlFlowGraphs" }

\* new TargetPool(...): five caches are constructed; _targets is declared
\* but never assigned, so it is undefined.  calls counts the invocations of
\* each generator per file (of convertAST per file and target name), and
\* failures those that threw.
constructor ==
  [ targets             |-> [defined |-> FALSE, map |-> EmptyMap],
    sources             |-> EmptyMap,
    abstractSyntaxTrees |-> EmptyMap,
    targetMap           |-> EmptyMap,
    functionMaps        |-> EmptyMap,
    controlFlowGraphs   |-> EmptyMap,
    calls               |-> [ source   |-> NoCalls,
                              ast      |-> NoCalls,
                              map      |-> NoCalls,
                              cfg      |-> [k \in Keys |-> 0],
                              analyzer |-> NoCalls ],
    failures            |-> [ source   |-> NoCalls,
                              ast      |-> NoCalls,
                              map      |-> NoCalls ] ]

\* Reading a property of undefined.
TypeError == [name |-> "TypeError", message |-> <<"Cannot read properties of undefined">>]

\* -------------------------------------------------------------- generators

\* SourceGenerator.generate(path): the text of the file, or an I/O error.
SourceGenerator_generate(w, p) ==
  IF w[p] = "unreadable"
  THEN [ok |-> FALSE, val |-> [name |-> "IOError", message |-> <<p>>]]
  ELSE [ok |-> TRUE, val |-> [file |-> p, text |-> w[p]]]

\* ASTGenerator.generate(source): a new tree for the text, or a parse error.
\* n tells the trees of two invocations apart.
ASTGenerator_generate(source, n) ==
  IF source.text = "badSyntax"
  THEN [ok |-> FALSE, val |-> [name |-> "ParseError", message |-> <<source.file>>]]
  ELSE [ok |-> TRUE, val |-> [kind |-> "ast", source |-> source, id |-> n]]

\* TargetMapGenerator.generate(ast): a target map and a function map over
\* the declarations of the tree, or an error.
TargetMapGenerator_generate(ast, n) ==
  IF ast.source.text = "badMap"
  THEN [ok |-> FALSE, val |-> [name |-> "MapError", message |-> <<ast.source.file>>]]
  ELSE [ok |-> TRUE,
        val |-> [ targetMap   |-> [kind |-> "targetMap", ast |-> ast, id |-> n,
                                   names |-> Declared(ast.source.file),
                                   parents |-> project[ast.source.file].targets],
                  functionMap |-> [kind |-> "functionMap", ast |-> ast, id |-> n,
                                   names |-> Declared(ast.source.file)] ]]

\* SolidityCFGFactory.convertAST(ast, false, false): a new CFG of the tree.
convertAST(ast, n) == [kind |-> "cfg", ast |-> ast, id |-> n]

\* ----------------------------------------------------------------- getters

\* Generator gen is invoked for file p.
invoked(s, gen, p) == [s EXCEPT !.calls[gen][p] = @ + 1]

\* Generator gen, invoked for file p, threw.
failed(s, gen, p) == [s EXCEPT !.failures[gen][p] = @ + 1]

\* storeSource that also stores what a failed generator threw.
storeSource_StoreFailure(s, absoluteTargetPath, g) ==
  R([(IF g.ok THEN s ELSE failed(s, "source", absoluteTargetPath))
       EXCEPT !.sources = set(@, absoluteTargetPath, g.val)], g.ok, g.val)

\* Lines 148-150: the generated source g is stored and returned; when the
\* generator threw, nothing is stored.
storeSource(s, absoluteTargetPath, g) ==
  IF ~g.ok THEN R(failed(s, "source", absoluteTargetPath), FALSE, g.val)
  ELSE R([s EXCEPT !.sources = set(@, absoluteTargetPath, g.val)], TRUE, g.val)

\* getSource without the cache lookup of line 145.
getSource_NoCache(s, w, targetPath) ==
  storeSource(invoked(s, "source", resolve(targetPath)), resolve(targetPath),
              SourceGenerator_generate(w, resolve(targetPath)))

\* getSource keyed by the path as passed.
getSource_RawKey(s, w, targetPath) ==
  IF has(s.sources, targetPath)
  THEN R(s, TRUE, s.sources[targetPath])
  ELSE storeSource(invoked(s, "source", resolve(targetPath)), targetPath,
                   SourceGenerator_generate(w, resolve(targetPath)))

getSource(s, w, targetPath) ==
  IF has(s.sources, resolve(targetPath))
  THEN R(s, TRUE, s.sources[resolve(targetPath)])
  ELSE storeSource(invoked(s, "source", resolve(targetPath)), resolve(targetPath),
                   SourceGenerator_generate(w, resolve(targetPath)))

\* storeAST without the cache write of line 163.
storeAST_NoStore(s, absoluteTargetPath, g) ==
  IF ~g.ok THEN R(failed(s, "ast", absoluteTargetPath), FALSE, g.val)
  ELSE R(s, TRUE, g.val)

\* Lines 163-164.
storeAST(s, absoluteTargetPath, g) ==
  IF ~g.ok THEN R(failed(s, "ast", absoluteTargetPath), FALSE, g.val)
  ELSE R([s EXCEPT !.abstractSyntaxTrees = set(@, absoluteTargetPath, g.val)],
         TRUE, g.val)

\* Lines 161-162, on the outcome r of getSource.
parseSource(r, absoluteTargetPath) ==
  IF ~r.ok THEN r
  ELSE storeAST(invoked(r.s, "ast", absoluteTargetPath), absoluteTargetPath,
                ASTGenerator_generate(r.val, r.s.calls.ast[absoluteTargetPath] + 1))

\* getAST without the cache lookup of line 157.
getAST_Reparse(s, w, targetPath) ==
  parseSource(getSource(s, w, resolve(targetPath)), resolve(targetPath))

getAST(s, w, targetPath) ==
  IF has(s.abstractSyntaxTrees, resolve(targetPath))
  THEN R(s, TRUE, s.abstractSyntaxTrees[resolve(targetPath)])
  ELSE parseSource(getSource(s, w, resolve(targetPath)), resolve(targetPath))

\* storeMaps without the write of lines 178 and 191.
storeMaps_TargetMapOnly(s, absoluteTargetPath, g) ==
  IF ~g.ok THEN R(failed(s, "map", absoluteTargetPath), FALSE, g.val)
  ELSE R([s EXCEPT !.targetMap = set(@, absoluteTargetPath, g.val.targetMap)],
         TRUE, g.val)

\* Lines 177-178 and 190-191: both maps are stored under the absolute path.
storeMaps(s, absoluteTargetPath, g) ==
  IF ~g.ok THEN R(failed(s, "map", absoluteTargetPath), FALSE, g.val)
  ELSE R([s EXCEPT !.targetMap    = set(@, absoluteTargetPath, g.val.targetMap),
                   !.functionMaps = set(@, absoluteTargetPath, g.val.functionMap)],
         TRUE, g.val)

\* Lines 175-176 and 188-189, on the outcome r of getAST.
mapAST(r, absoluteTargetPath) ==
  IF ~r.ok THEN r
  ELSE storeMaps(invoked(r.s, "map", absoluteTargetPath), absoluteTargetPath,
                 TargetMapGenerator_generate(r.val, r.s.calls.map[absoluteTargetPath] + 1))

\* Lines 174-178 and 187-191.
generateMaps(s, w, absoluteTargetPath) ==
  mapAST(getAST(s, w, absoluteTargetPath), absoluteTargetPath)

\* Line 179, on the outcome r of generateMaps.
returnTargetMap(r) == IF ~r.ok THEN r ELSE R(r.s, TRUE, r.val.targetMap)

\* getTargetMap without the cache lookup of line 171.
getTargetMap_Regenerate(s, w, targetPath) ==
  returnTargetMap(generateMaps(s, w, resolve(targetPath)))

getTargetMap(s, w, targetPath) ==
  IF has(s.targetMap, resolve(targetPath))
  THEN R(s, TRUE, s.targetMap[resolve(targetPath)])
  ELSE returnTargetMap(generateMaps(s, w, resolve(targetPath)))

\* The error of line 197.
TargetNotFound(targetName, targetPath) ==
  [ name    |-> "Error",
    message |-> <<"Target ", targetName, " could not be found at ", targetPath>> ]

\* functionMap.get(targetName): the functions of one target.
functionsOf(functionMap, targetName) ==
  [kind |-> "functions", target |-> targetName, functionMap |-> functionMap]

\* lookupFunctions without the check of line 194.
lookupFunctions_Lenient(r, targetPath, targetName) ==
  IF ~r.ok THEN r
  ELSE R(r.s, TRUE, functionsOf(r.s.functionMaps[resolve(targetPath)], targetName))

\* Lines 194-200, on the outcome r of lines 186-192.
lookupFunctions(r, targetPath, targetName) ==
  IF ~r.ok THEN r
  ELSE IF targetName \in r.s.functionMaps[resolve(targetPath)].names
       THEN R(r.s, TRUE, functionsOf(r.s.functionMaps[resolve(targetPath)], targetName))
       ELSE R(r.s, FALSE, TargetNotFound(targetName, targetPath))

\* getFunctionMap without the guard of line 186.
getFunctionMap_Regenerate(s, w, targetPath, targetName) ==
  lookupFunctions(generateMaps(s, w, resolve(targetPath)), targetPath, targetName)

getFunctionMap(s, w, targetPath, targetName) ==
  lookupFunctions(IF ~has(s.functionMaps, resolve(targetPath))
                  THEN generateMaps(s, w, resolve(targetPath))
                  ELSE R(s, TRUE, [kind |-> "none"]),
                  targetPath, targetName)

\* The CFGs convertAST has built of the file so far.
cfgsBuilt(s, absoluteTargetPath) ==
  Sum(s.calls.cfg, {absoluteTargetPath} \X TargetNames)

\* Lines 213-219, on the outcome r of getAST.
convertAndStore(r, absoluteTargetPath, targetName) ==
  IF ~r.ok THEN r
  ELSE R([invoked(r.s, "cfg", <<absoluteTargetPath, targetName>>) EXCEPT
            !.controlFlowGraphs =
               set(@, absoluteTargetPath,
                   convertAST(r.val, cfgsBuilt(r.s, absoluteTargetPath) + 1))],
         TRUE, convertAST(r.val, cfgsBuilt(r.s, absoluteTargetPath) + 1))

getCFG(s, w, targetPath, targetName) ==
  IF ~s.targets.defined THEN R(s, FALSE, TypeError)
  ELSE IF has(s.targets.map, resolve(targetPath))
          /\ has(s.targets.map[resolve(targetPath)], targetName)
       THEN R(s, TRUE, s.targets.map[resolve(targetPath)][targetName].controlFlowGraph)
       ELSE convertAndStore(getAST(s, w, resolve(targetPath)), resolve(targetPath),
                            targetName)

\* ------------------------------------------------------ DependencyAnalyzer

SeqToSet(q) == { q[i] : i \in 1..Len(q) }

\* importExpand that follows the imports of the root file only.
importExpand_DirectOnly(r, f, work, visited, edges) ==
  IF ~r.ok THEN r
  ELSE R(r.s, TRUE,
         [ work    |-> IF visited = << >> THEN work \o ImportsOf(r.val.source.file) ELSE work,
           visited |-> Append(visited, f),
           edges   |-> edges \cup { <<f, g>> : g \in SeqToSet(ImportsOf(r.val.source.file)) } ])

\* An iteration of analyzeImports, on the outcome r of parsing file f: its
\* imports join the worklist, f joins the visited files.
importExpand(r, f, work, visited, edges) ==
  IF ~r.ok THEN r
  ELSE R(r.s, TRUE,
         [ work    |-> work \o ImportsOf(r.val.source.file),
           visited |-> Append(visited, f),
           edges   |-> edges \cup { <<f, g>> : g \in SeqToSet(ImportsOf(r.val.source.file)) } ])

\* One iteration of the traversal of analyzeImports: a file that was visited
\* is dropped from the worklist, a new file is parsed through the pool.
importVisit(s, w, work, visited, edges) ==
  IF Head(work) \in SeqToSet(visited)
  THEN R(s, TRUE, [work |-> Tail(work), visited |-> visited, edges |-> edges])
  ELSE importExpand(getAST(s, w, Head(work)), Head(work), Tail(work), visited, edges)

\* The import graph of a finished traversal.
ImportGraph(visited, edges) == [nodes |-> visited, edges |-> edges]

RECURSIVE importWalk(_, _, _, _)
\* The iterations of analyzeImports from the traversal state t (the outcome
\* of the iteration before) until the worklist is empty.
importWalk(s, w, ok, t) ==
  IF ~ok THEN R(s, FALSE, t)
  ELSE IF t.work = << >> THEN R(s, TRUE, ImportGraph(t.visited, t.edges))
  ELSE importWalk(importVisit(s, w, t.work, t.visited, t.edges).s, w,
                  importVisit(s, w, t.work, t.visited, t.edges).ok,
                  importVisit(s, w, t.work, t.visited, t.edges).val)

\* The traversal starts at the canonical path of the file.
analyzeImports(s, w, targetPath) ==
  importWalk(s, w, TRUE, [work |-> <<resolve(targetPath)>>, visited |-> << >>, edges |-> {}])

\* The error of analyzeContext: name is declared by file f and by the file
\* that the context holds for it.
AmbiguousTargetError(name, g, f) ==
  [name |-> "AmbiguousTargetError", message |-> <<name, g, f>>]

\* contextMerge that keeps the declaration it met first.
contextMerge_KeepFirst(r, f, context) ==
  IF ~r.ok THEN r
  ELSE R(r.s, TRUE,
         [n \in (DOMAIN context) \cup r.val.names |->
            IF has(context, n) THEN context[n]
            ELSE [file |-> f, name |-> n, parents |-> r.val.parents[n]]])

\* One iteration of analyzeContext, on the outcome r of getTargetMap(f): the
\* declarations of file f are merged into the context; a name that another
\* file declared is an error.
contextMerge(r, f, context) ==
  IF ~r.ok THEN r
  ELSE IF \E n \in r.val.names : has(context, n)
       THEN R(r.s, FALSE,
              LET n == CHOOSE n \in r.val.names : has(context, n)
              IN AmbiguousTargetError(n, context[n].file, f))
       ELSE R(r.s, TRUE,
              [n \in (DOMAIN context) \cup r.val.names |->
                 IF has(context, n) THEN context[n]
                 ELSE [file |-> f, name |-> n, parents |-> r.val.parents[n]]])

RECURSIVE contextWalk(_, _, _, _, _)
\* The iterations of analyzeContext over the files of the import graph.
contextWalk(s, w, ok, files, context) ==
  IF ~ok THEN R(s, FALSE, context)
  ELSE IF files = << >> THEN R(s, TRUE, context)
  ELSE contextWalk(contextMerge(getTargetMap(s, w, Head(files)), Head(files), context).s, w,
                   contextMerge(getTargetMap(s, w, Head(files)), Head(files), context).ok,
                   Tail(files),
                   contextMerge(getTargetMap(s, w, Head(files)), Head(files), context).val)

analyzeContext(s, w, importGraph) ==
  contextWalk(s, w, TRUE, importGraph.nodes, EmptyMap)

\* inheritVisit without the test for a name that is on its own chain.
inheritVisit_NoCycleCheck(context, work, visited, edges) ==
  IF ~has(context, Head(work).name)
  THEN [ok |-> FALSE,
        val |-> [name |-> "UnresolvedParentError", message |-> <<Head(work).name>>]]
  ELSE [ok |-> TRUE,
        val |-> [ work    |-> Tail(work) \o
                                [i \in 1..Len(context[Head(work).name].parents) |->
                                   [name  |-> context[Head(work).name].parents[i],
                                    chain |-> Append(Head(work).chain, Head(work).name)]],
                  visited |-> IF Head(work).name \in SeqToSet(visited) THEN visited
                              ELSE Append(visited, Head(work).name),
                  edges   |-> edges \cup { <<Head(work).name, q>> :
                                             q \in SeqToSet(context[Head(work).name].parents) } ]]

\* One iteration of analyzeInheritance.  A work item is a target name and the
\* chain of children that led to it, which is the visited-set of its branch:
\* a name that is on its own chain closes a cycle.
inheritVisit(context, work, visited, edges) ==
  IF ~has(context, Head(work).name)
  THEN [ok |-> FALSE,
        val |-> [name |-> "UnresolvedParentError", message |-> <<Head(work).name>>]]
  ELSE IF Head(work).name \in SeqToSet(Head(work).chain)
  THEN [ok |-> FALSE,
        val |-> [name |-> "InheritanceCycleError",
                 message |-> Append(Head(work).chain, Head(work).name)]]
  ELSE [ok |-> TRUE,
        val |-> [ work    |-> Tail(work) \o
                                [i \in 1..Len(context[Head(work).name].parents) |->
                                   [name  |-> context[Head(work).name].parents[i],
                                    chain |-> Append(Head(work).chain, Head(work).name)]],
                  visited |-> IF Head(work).name \in SeqToSet(visited) THEN visited
                              ELSE Append(visited, Head(work).name),
                  edges   |-> edges \cup { <<Head(work).name, q>> :
                                             q \in SeqToSet(context[Head(work).name].parents) } ]]

\* The inheritance graph of a finished traversal: the edges child -> parent
\* and the targets of the chain, the target itself first.
InheritanceGraph(visited, edges) == [nodes |-> visited, edges |-> edges]

RECURSIVE inheritanceWalk(_, _, _)
\* The iterations of analyzeInheritance until no work is left.
inheritanceWalk(context, ok, t) ==
  IF ~ok THEN [ok |-> FALSE, val |-> t]
  ELSE IF t.work = << >> THEN [ok |-> TRUE, val |-> InheritanceGraph(t.visited, t.edges)]
  ELSE inheritanceWalk(context,
                       inheritVisit(context, t.work, t.visited, t.edges).ok,
                       inheritVisit(context, t.work, t.visited, t.edges).val)

analyzeInheritance(context, targetName) ==
  inheritanceWalk(context, TRUE,
                  [work    |-> << [name |-> targetName, chain |-> << >>] >>,
                   visited |-> << >>, edges |-> {}])

\* The files of the import graph and the declaring file of every target on
\* the inheritance chain.
linkingUnion(importGraph, context, chain) ==
  IF ~chain.ok THEN chain
  ELSE [ok |-> TRUE,
        val |-> SeqToSet(importGraph.nodes)
                  \cup { context[n].file : n \in SeqToSet(chain.val.nodes) }]

analyzeLinking(importGraph, context, targetName) ==
  linkingUnion(importGraph, context, analyzeInheritance(context, targetName))

\* ------------------------------------------------------------ createTarget

\* Lines 133-139, on the assembled target.
storeTarget(s, targetPath, targetName, target) ==
  IF ~s.targets.defined THEN R(s, FALSE, TypeError)
  ELSE IF has(s.targets.map, targetPath)
       \* lines 133-135: the entry of the file is replaced by a new map
       THEN R([s EXCEPT !.targets.map =
                          set(@, targetPath, set(EmptyMap, targetName, target))],
              TRUE, target)
       \* line 137: .get(targetPath) is undefined
       ELSE R(s, FALSE, TypeError)

\* Lines 115-131, on the outcome r of analyzeInheritance.
link(r, t, targetPath, targetName) ==
  IF ~r.ok THEN r
  ELSE storeTarget(r.s, targetPath, targetName,
         [t EXCEPT !.linkingGraph =
                     analyzeLinking(t.importGraph, t.context, targetName).val])

\* Line 111, on the outcome r of analyzeContext.
inherit(r, t, targetPath, targetName) ==
  IF ~r.ok THEN r
  ELSE link(R(r.s, analyzeInheritance(r.val, targetName).ok,
              analyzeInheritance(r.val, targetName).val),
            [t EXCEPT !.context = r.val], targetPath, targetName)

\* Line 110, on the outcome r of analyzeImports.
contextualize(r, w, t, targetPath, targetName) ==
  IF ~r.ok THEN r
  ELSE inherit(analyzeContext(r.s, w, r.val),
               [t EXCEPT !.importGraph = r.val, !.dependencies = r.val.nodes],
               targetPath, targetName)

\* Lines 107-109, on the outcome r of getCFG.
analyze(r, w, t, targetPath, targetName) ==
  IF ~r.ok THEN r
  ELSE contextualize(analyzeImports(invoked(r.s, "analyzer", t.path), w, targetPath), w,
                     [t EXCEPT !.controlFlowGraph = r.val], targetPath, targetName)

\* Line 104, on the outcome r of getFunctionMap.
withCFG(r, w, t, targetPath, targetName) ==
  IF ~r.ok THEN r
  ELSE analyze(getCFG(r.s, w, t.path, targetName), w,
               [t EXCEPT !.functionMap = r.val], targetPath, targetName)

\* withFunctionMap that starts the dependency analysis before the function map
\* and the CFG are resolved.
withFunctionMap_AnalyzeFirst(r, w, t, targetPath, targetName) ==
  IF ~r.ok THEN r
  ELSE analyze(R(r.s, TRUE, [kind |-> "none"]), w,
               [t EXCEPT !.abstractSyntaxTree = r.val], targetPath, targetName)

\* Line 103, on the outcome r of getAST.
withFunctionMap(r, w, t, targetPath, targetName) ==
  IF ~r.ok THEN r
  ELSE withCFG(getFunctionMap(r.s, w, t.path, targetName), w,
               [t EXCEPT !.abstractSyntaxTree = r.val], targetPath, targetName)

\* Line 102, on the outcome r of getSource.
withAST(r, w, t, targetPath, targetName) ==
  IF ~r.ok THEN r
  ELSE withFunctionMap(getAST(r.s, w, t.path), w,
                       [t EXCEPT !.source = r.val], targetPath, targetName)

\* new Target(...) before its parts are known.
Target(absoluteTargetPath, targetName) ==
  [ path               |-> absoluteTargetPath,
    targetName         |-> targetName,
    source             |-> [kind |-> "none"],
    abstractSyntaxTree |-> [kind |-> "none"],
    context            |-> EmptyMap,
    functionMap        |-> [kind |-> "none"],
    controlFlowGraph   |-> [kind |-> "none"],
    linkingGraph       |-> {},
    importGraph        |-> [nodes |-> << >>, edges |-> {}],
    dependencies       |-> << >> ]

createTarget(s, w, targetPath, targetName) ==
  withAST(getSource(s, w, resolve(targetPath)), w,
          Target(resolve(targetPath), targetName), targetPath, targetName)

\* ----------------------------------------------------------------- actions

Key(targetPath, targetName) == <<resolve(targetPath), targetName>>

\* No task, no analysis and no second pool: the pool is used call by call.
NoTasks == [disk |-> << >>, tasks |-> << >>]

NoAnalysis == [phase |-> "none"]

NoPools == [heap |-> << >>]

\* No launcher runs, and no statistics are collected.
NoRun == [pc |-> "none"]

NoStatistics == [at |-> "none"]

NothingReturned ==
  [ ast    |-> [p \in ProjectFiles |-> {}],
    cfg    |-> [k \in Keys |-> {}],
    target |-> [k \in Keys |-> {}] ]

\* last describes the latest call: the method, its arguments, whether the pool
\* was still as constructed (fresh), whether the cache of the method already
\* held the requested entry (cached), whether the method had already returned
\* for the same key (again), whether the call before it named the same file
\* by another raw path (other), and how the call ended.
Init ==
  /\ pool = constructor
  /\ last = [op |-> "constructor", path |-> << >>, name |-> "", fresh |-> TRUE,
             cached |-> FALSE, again |-> FALSE, other |-> FALSE,
             ok |-> TRUE, val |-> [kind |-> "none"]]
  /\ returned = NothingReturned
  /\ project = OneFileProject
  /\ sched = NoTasks
  /\ an = NoAnalysis
  /\ multi = NoPools
  /\ launcher = NoRun
  /\ stats = NoStatistics

\* The failed generator invocations, over all generators and files.
allFailures(s) ==
  Sum(s.failures.source, ProjectFiles) + Sum(s.failures.ast, ProjectFiles)
    + Sum(s.failures.map, ProjectFiles)

WithinBounds(s) ==
  /\ \A g \in DOMAIN s.calls : \A k \in DOMAIN s.calls[g] : s.calls[g][k] <= MaxGenCalls
  /\ allFailures(s) <= MaxFailures

\* Whether the cache that method op fills already holds the requested entry.
Cached(op, targetPath, targetName) ==
  CASE op = "getSource"      -> has(pool.sources, resolve(targetPath))
    [] op = "getAST"         -> has(pool.abstractSyntaxTrees, resolve(targetPath))
    [] op = "getTargetMap"   -> has(pool.targetMap, resolve(targetPath))
    [] op = "getFunctionMap" -> has(pool.functionMaps, resolve(targetPath))
    [] op = "getCFG"         -> has(pool.controlFlowGraphs, resolve(targetPath))
    [] op = "createTarget"   -> /\ pool.targets.defined
                                /\ has(pool.targets.map, resolve(targetPath))
                                /\ has(pool.targets.map[resolve(targetPath)], targetName)

\* The call r of method op has run: the pool is as r left it.
Finish(op, targetPath, targetName, again, r) ==
  /\ WithinBounds(r.s)
  /\ pool' = r.s
  /\ last' = [op |-> op, path |-> targetPath, name |-> targetName,
              fresh |-> (pool = constructor),
              cached |-> Cached(op, targetPath, targetName),
              again |-> again,
              other |-> /\ last.op # "constructor"
                        /\ resolve(last.path) = resolve(targetPath)
                        /\ last.path # targetPath,
              ok |-> r.ok, val |-> r.val]
  /\ UNCHANGED << project, sched, an, multi, launcher, stats >>

\* The worlds a call is tried in.  Files are read by the source generator
\* only, and only on a miss of the source cache: what the file of the call
\* holds matters until its source is cached.  The other files are good.
WorldsOf(targetPath) ==
  { [p \in ProjectFiles |-> IF p = resolve(targetPath) THEN f ELSE "good"] :
      f \in IF has(pool.sources, resolve(targetPath)) THEN {"good"} ELSE FileStates }

GetSource ==
  \E targetPath \in RawPaths : \E w \in WorldsOf(targetPath) :
    /\ Finish("getSource", targetPath, "", FALSE, getSource(pool, w, targetPath))
    /\ UNCHANGED returned

GetAST ==
  \E targetPath \in RawPaths : \E w \in WorldsOf(targetPath) :
    LET r == getAST(pool, w, targetPath)
    IN /\ Finish("getAST", targetPath, "", returned.ast[resolve(targetPath)] # {}, r)
       /\ returned' = IF r.ok
                      THEN [returned EXCEPT !.ast[resolve(targetPath)] = @ \cup {r.val}]
                      ELSE returned

GetTargetMap ==
  \E targetPath \in RawPaths : \E w \in WorldsOf(targetPath) :
    /\ Finish("getTargetMap", targetPath, "", FALSE, getTargetMap(pool, w, targetPath))
    /\ UNCHANGED returned

GetFunctionMap ==
  \E targetPath \in RawPaths, targetName \in TargetNames : \E w \in WorldsOf(targetPath) :
    /\ Finish("getFunctionMap", targetPath, targetName, FALSE,
              getFunctionMap(pool, w, targetPath, targetName))
    /\ UNCHANGED returned

GetCFG ==
  \E targetPath \in RawPaths, targetName \in TargetNames : \E w \in WorldsOf(targetPath) :
    LET r == getCFG(pool, w, targetPath, targetName)
    IN /\ Finish("getCFG", targetPath, targetName,
                 returned.cfg[Key(targetPath, targetName)] # {}, r)
       /\ returned' = IF r.ok
                      THEN [returned EXCEPT !.cfg[Key(targetPath, targetName)] = @ \cup {r.val}]
                      ELSE returned

CreateTarget ==
  \E targetPath \in RawPaths, targetName \in TargetNames : \E w \in WorldsOf(targetPath) :
    LET r == createTarget(pool, w, targetPath, targetName)
    IN /\ Finish("createTarget", targetPath, targetName,
                 returned.target[Key(targetPath, targetName)] # {}, r)
       /\ returned' = IF r.ok
                      THEN [returned EXCEPT !.target[Key(targetPath, targetName)] = @ \cup {r.val}]
                      ELSE returned

Next ==
  \/ GetSource
  \/ GetAST
  \/ GetTargetMap
  \/ GetFunctionMap
  \/ GetCFG
  \/ CreateTarget

Spec == Init /\ [][Next]_vars

\* ------------------------------------------------- the getters line by line

\* The event loop runs tasks; a task calls one getter of the pool.  A call is
\* a frame on the stack of its task: the method, the absolute path, the line
\* it is at (pc) and the local value it holds.
\*   lookup    the cache test of lines 145, 157, 171
\*   call      the nested getter call of lines 160, 174
\*   generate  the generator call of lines 148, 161-162, 175-176
\*   store     the cache write of lines 149, 163, 177-178
Tasks == 1..MaxTasks

Getters == { "getSource", "getAST", "getTargetMap" }

CacheOf(method) ==
  CASE method = "getSource"    -> "sources"
    [] method = "getAST"       -> "abstractSyntaxTrees"
    [] method = "getTargetMap" -> "targetMap"

\* The getter that a getter calls on a miss.
CalleeOf(method) ==
  CASE method = "getAST"       -> "getSource"
    [] method = "getTargetMap" -> "getAST"

GeneratorOf(method) ==
  CASE method = "getSource"    -> "source"
    [] method = "getAST"       -> "ast"
    [] method = "getTargetMap" -> "map"

Frame(method, absoluteTargetPath) ==
  [method |-> method, path |-> absoluteTargetPath, pc |-> "lookup", val |-> [kind |-> "none"]]

\* The disks the tasks run on: c.sol is never addressed.
Disks == { w \in Worlds : w[<<"/", "w", "c.sol">>] = "good" }

Pending == [status |-> "pending", method |-> "", path |-> << >>, stack |-> << >>,
            val |-> [kind |-> "none"]]

InitSteps ==
  /\ pool = constructor
  /\ last = [op |-> "constructor"]
  /\ returned = NothingReturned
  /\ project = OneFileProject
  /\ sched \in { [disk |-> w, tasks |-> [t \in Tasks |-> Pending]] : w \in Disks }
  /\ an = NoAnalysis
  /\ multi = NoPools
  /\ launcher = NoRun
  /\ stats = NoStatistics

\* A task whose stack is not empty takes interleaved steps with every other.
mayRun_Interleaved(tasks, t) == TRUE

\* The getters are synchronous functions: no line between the lookup and the
\* store awaits, so a task runs to completion before the event loop takes the
\* next one.
mayRun(tasks, t) == \A u \in Tasks \ {t} : tasks[u].status # "running"

top(t) == Head(sched.tasks[t].stack)

\* The top frame of task t returns v: the task ends, or the caller holds v
\* and goes on with its generator.
return(t, v) ==
  IF Len(sched.tasks[t].stack) = 1
  THEN [sched.tasks[t] EXCEPT !.status = "returned", !.stack = << >>, !.val = v]
  ELSE [sched.tasks[t] EXCEPT
          !.stack = << [@[2] EXCEPT !.pc = "generate", !.val = v] >> \o SubSeq(@, 3, Len(@))]

\* The top frame of task t throws e: no frame catches, the task ends.
throw(t, e) ==
  [sched.tasks[t] EXCEPT !.status = "threw", !.stack = << >>, !.val = e]

Aside == UNCHANGED << last, returned, project, an, multi, launcher, stats >>

\* The event loop takes a task: it calls a getter with a raw path.
Dispatch ==
  \E t \in Tasks, method \in Getters, targetPath \in RawPaths :
    /\ sched.tasks[t].status = "pending"
    /\ mayRun(sched.tasks, t)
    /\ sched' = [sched EXCEPT !.tasks[t] =
                   [@ EXCEPT !.status = "running", !.method = method, !.path = targetPath,
                             !.stack = << Frame(method, resolve(targetPath)) >>]]
    /\ UNCHANGED pool
    /\ Aside

\* Lookup in which a miss of getAST reads the file itself and goes on to the
\* parser, without the getSource call of line 160.
Lookup_ParseUnloaded ==
  \E t \in Tasks :
    /\ sched.tasks[t].status = "running"
    /\ mayRun(sched.tasks, t)
    /\ top(t).pc = "lookup"
    /\ sched' = [sched EXCEPT !.tasks[t] =
         IF has(pool[CacheOf(top(t).method)], top(t).path)
         THEN return(t, pool[CacheOf(top(t).method)][top(t).path])
         ELSE IF top(t).method = "getSource"
              THEN [@ EXCEPT !.stack[1].pc = "generate"]
              ELSE IF top(t).method = "getAST"
                   THEN [@ EXCEPT !.stack[1].pc = "generate",
                                  !.stack[1].val = [file |-> top(t).path,
                                                    text |-> sched.disk[top(t).path]]]
                   ELSE [@ EXCEPT !.stack = << Frame(CalleeOf(top(t).method), top(t).path),
                                               [top(t) EXCEPT !.pc = "call"] >> \o Tail(@)]]
    /\ UNCHANGED pool
    /\ Aside

\* Lines 145, 157, 171: a hit returns the entry; on a miss getSource goes on
\* to its generator, getAST and getTargetMap call the getter below them.
Lookup ==
  \E t \in Tasks :
    /\ sched.tasks[t].status = "running"
    /\ mayRun(sched.tasks, t)
    /\ top(t).pc = "lookup"
    /\ sched' = [sched EXCEPT !.tasks[t] =
         IF has(pool[CacheOf(top(t).method)], top(t).path)
         THEN return(t, pool[CacheOf(top(t).method)][top(t).path])
         ELSE IF top(t).method = "getSource"
              THEN [@ EXCEPT !.stack[1].pc = "generate"]
              ELSE [@ EXCEPT !.stack = << Frame(CalleeOf(top(t).method), top(t).path),
                                          [top(t) EXCEPT !.pc = "call"] >> \o Tail(@)]]
    /\ UNCHANGED pool
    /\ Aside

\* What the generator of the frame yields.
generated(f, disk) ==
  CASE f.method = "getSource" -> SourceGenerator_generate(disk, f.path)
    [] f.method = "getAST" ->
         ASTGenerator_generate(f.val, pool.calls.ast[f.path] + 1)
    [] f.method = "getTargetMap" ->
         TargetMapGenerator_generate(f.val, pool.calls.map[f.path] + 1)

\* Lines 148, 161-162, 175-176: the generator is invoked.
Generate ==
  \E t \in Tasks :
    /\ sched.tasks[t].status = "running"
    /\ mayRun(sched.tasks, t)
    /\ top(t).pc = "generate"
    /\ pool.calls[GeneratorOf(top(t).method)][top(t).path] < MaxGenCalls
    /\ pool' = invoked(pool, GeneratorOf(top(t).method), top(t).path)
    /\ sched' = [sched EXCEPT !.tasks[t].stack[1] =
                   [@ EXCEPT !.pc = "store", !.val = generated(top(t), sched.disk)]]
    /\ Aside

\* The outcome of the cache write of the frame.
stored(f) ==
  CASE f.method = "getSource"    -> storeSource(pool, f.path, f.val)
    [] f.method = "getAST"       -> storeAST(pool, f.path, f.val)
    [] f.method = "getTargetMap" -> returnTargetMap(storeMaps(pool, f.path, f.val))

\* Lines 149-150, 163-164, 177-179: what the generator returned is stored and
\* returned; what it threw leaves the getter.
Store ==
  \E t \in Tasks :
    /\ sched.tasks[t].status = "running"
    /\ mayRun(sched.tasks, t)
    /\ top(t).pc = "store"
    /\ pool' = stored(top(t)).s
    /\ sched' = [sched EXCEPT !.tasks[t] =
                   IF stored(top(t)).ok THEN return(t, stored(top(t)).val)
                   ELSE throw(t, stored(top(t)).val)]
    /\ Aside

NextSteps ==
  \/ Dispatch
  \/ Lookup
  \/ Generate
  \/ Store

SpecSteps == InitSteps /\ [][NextSteps]_vars

\* ------------------------------------- the DependencyAnalyzer step by step

FileA == <<"/", "w", "a.sol">>

FileB == <<"/", "w", "b.sol">>

FileC == <<"/", "w", "c.sol">>

\* What a.sol, b.sol and c.sol may hold: import statements in source order
\* and declarations with the parents they name.
ContentsOfA ==
  [ imports : { << >>, <<FileB>>, <<FileB, FileC>> },
    targets : { ("A" :> << >>), ("A" :> <<"B">>),
                ("A" :> << >>) @@ ("B" :> <<"A">>),
                ("A" :> <<"B">>) @@ ("B" :> <<"A">>) } ]

ContentsOfB ==
  [ imports : { << >>, <<FileA>>, <<FileC>>, <<FileC, FileA>> },
    targets : { << >>, ("B" :> << >>), ("A" :> << >>), ("B" :> <<"A">>) } ]

ContentsOfC ==
  [ imports : { << >>, <<FileA>> },
    targets : { << >>, ("B" :> << >>), ("A" :> << >>) } ]

Projects ==
  { (FileA :> a) @@ (FileB :> b) @@ (FileC :> c) :
      a \in ContentsOfA, b \in ContentsOfB, c \in ContentsOfC }

\* Every file can be read, parsed and mapped.
GoodDisk == [p \in ProjectFiles |-> "good"]

Idle ==
  [ phase |-> "idle", root |-> << >>, name |-> "",
    work |-> << >>, visited |-> << >>, edges |-> {}, steps |-> 0,
    importGraph |-> ImportGraph(<< >>, {}), context |-> EmptyMap,
    inheritanceGraph |-> InheritanceGraph(<< >>, {}), linkingGraph |-> {},
    error |-> [name |-> "none"] ]

InitAnalyzer ==
  /\ pool = constructor
  /\ last = [op |-> "constructor"]
  /\ returned = NothingReturned
  /\ project \in Projects
  /\ sched = NoTasks
  /\ an = Idle
  /\ multi = NoPools
  /\ launcher = NoRun
  /\ stats = NoStatistics

\* The analysis has failed with error e.
failedWith(e) == [an EXCEPT !.phase = "failed", !.error = e]

Apart == UNCHANGED << last, returned, project, sched, multi, launcher, stats >>

\* analyzer.analyzeImports(targetPath) is called for a target of the file.
StartAnalysis ==
  \E targetPath \in RawPaths, targetName \in {"A", "B"} :
    /\ an.phase = "idle"
    /\ an' = [an EXCEPT !.phase = "imports", !.root = targetPath, !.name = targetName,
                        !.work = <<resolve(targetPath)>>]
    /\ pool' = invoked(pool, "analyzer", resolve(targetPath))
    /\ Apart

\* One iteration of analyzeImports.
ImportIteration ==
  /\ an.phase = "imports" /\ an.work # << >>
  /\ LET r == importVisit(pool, GoodDisk, an.work, an.visited, an.edges)
     IN /\ pool' = r.s
        /\ an' = IF ~r.ok THEN failedWith(r.val)
                 ELSE [an EXCEPT !.work = r.val.work, !.visited = r.val.visited,
                                 !.edges = r.val.edges, !.steps = @ + 1]
  /\ Apart

\* analyzeImports returns; analyzer.analyzeContext(importGraph) is called.
ImportsDone ==
  /\ an.phase = "imports" /\ an.work = << >>
  /\ an' = [an EXCEPT !.phase = "context", !.steps = 0,
                      !.importGraph = ImportGraph(an.visited, an.edges),
                      !.work = an.visited]
  /\ UNCHANGED pool
  /\ Apart

\* One iteration of analyzeContext.
ContextIteration ==
  /\ an.phase = "context" /\ an.work # << >>
  /\ LET r == contextMerge(getTargetMap(pool, GoodDisk, Head(an.work)),
                           Head(an.work), an.context)
     IN /\ pool' = r.s
        /\ an' = IF ~r.ok THEN failedWith(r.val)
                 ELSE [an EXCEPT !.work = Tail(@), !.context = r.val, !.steps = @ + 1]
  /\ Apart

\* analyzeContext returns; analyzer.analyzeInheritance(context, targetName) is
\* called.
ContextDone ==
  /\ an.phase = "context" /\ an.work = << >>
  /\ an' = [an EXCEPT !.phase = "inheritance", !.steps = 0,
                      !.work = << [name |-> an.name, chain |-> << >>] >>,
                      !.visited = << >>, !.edges = {}]
  /\ UNCHANGED pool
  /\ Apart

\* One iteration of analyzeInheritance.
InheritanceIteration ==
  /\ an.phase = "inheritance" /\ an.work # << >>
  /\ LET r == inheritVisit(an.context, an.work, an.visited, an.edges)
     IN an' = IF ~r.ok THEN failedWith(r.val)
              ELSE [an EXCEPT !.work = r.val.work, !.visited = r.val.visited,
                              !.edges = r.val.edges, !.steps = @ + 1]
  /\ UNCHANGED pool
  /\ Apart

\* analyzeInheritance returns; analyzer.analyzeLinking(importGraph, context,
\* targetName) is called and returns.
Link ==
  /\ an.phase = "inheritance" /\ an.work = << >>
  /\ an' = [an EXCEPT !.phase = "done",
                      !.inheritanceGraph = InheritanceGraph(an.visited, an.edges),
                      !.linkingGraph =
                         analyzeLinking(an.importGraph, an.context, an.name).val]
  /\ UNCHANGED pool
  /\ Apart

NextAnalyzer ==
  \/ StartAnalysis
  \/ ImportIteration
  \/ ImportsDone
  \/ ContextIteration
  \/ ContextDone
  \/ InheritanceIteration
  \/ Link

SpecAnalyzer == InitAnalyzer /\ [][NextAnalyzer]_vars

\* ------------------------------------------------------ two pools, one heap

\* Two TargetPools are constructed in one process.  The heap holds the Map
\* objects; a pool holds, for each of its cache fields, the reference to the
\* Map that its constructor created, and its own generators' counts.
Pools == {1, 2}

\* Every pool holds, for each field, the one Map of the class.
allocate_Static(i) == [c \in FileCaches |-> <<0, c>>]

\* Lines 78-85: the constructor of pool i creates a new Map for each field.
allocate(i) == [c \in FileCaches |-> <<i, c>>]

\* Pool i as its methods see it: the Maps its fields refer to.
view(m, i) ==
  [ targets             |-> constructor.targets,
    sources             |-> m.heap[m.pools[i].refs.sources],
    abstractSyntaxTrees |-> m.heap[m.pools[i].refs.abstractSyntaxTrees],
    targetMap           |-> m.heap[m.pools[i].refs.targetMap],
    functionMaps        |-> m.heap[m.pools[i].refs.functionMaps],
    controlFlowGraphs   |-> m.heap[m.pools[i].refs.controlFlowGraphs],
    calls               |-> m.pools[i].calls,
    failures            |-> m.pools[i].failures ]

\* The heap after a method of pool i has left the pool as s: the Maps that
\* the fields of pool i refer to hold what the method wrote.
written(m, i, s) ==
  [ref \in DOMAIN m.heap |->
     IF \E c \in FileCaches : m.pools[i].refs[c] = ref
     THEN s[CHOOSE c \in FileCaches : m.pools[i].refs[c] = ref]
     ELSE m.heap[ref]]

\* multi.alone[i] is a pool that is alone in its process and is given the
\* calls that pool i is given; multi.agree tells whether the latest call
\* ended for pool i as it ended for that pool.
InitPools ==
  /\ pool = constructor
  /\ last = [op |-> "constructor"]
  /\ returned = NothingReturned
  /\ project = OneFileProject
  /\ sched = NoTasks
  /\ an = NoAnalysis
  /\ multi = [ heap  |-> [ref \in { allocate(i)[c] : i \in Pools, c \in FileCaches } |-> EmptyMap],
               pools |-> [i \in Pools |-> [ refs     |-> allocate(i),
                                            calls    |-> constructor.calls,
                                            failures |-> constructor.failures ]],
               alone |-> [i \in Pools |-> constructor],
               acted |-> 0, agree |-> TRUE ]
  /\ launcher = NoRun
  /\ stats = NoStatistics

\* A method of pool i has run: r is how it ended for pool i, ra how it ended
\* for the pool that is alone.
finishOn(i, r, ra) ==
  /\ WithinBounds(r.s) /\ WithinBounds(ra.s)
  /\ multi' = [multi EXCEPT !.heap = written(multi, i, r.s),
                            !.pools[i].calls = r.s.calls,
                            !.pools[i].failures = r.s.failures,
                            !.alone[i] = ra.s,
                            !.acted = i,
                            !.agree = (r.ok = ra.ok /\ r.val = ra.val)]
  /\ UNCHANGED << pool, last, returned, project, sched, an, launcher, stats >>

\* The paths the two pools are asked for.
PoolPaths == { <<"a.sol">>, <<".", "b.sol">> }

\* The worlds a call on pool i is tried in: a.sol is readable or not until
\* pool i has its source, the other files are good.
worldsOn(i, targetPath) ==
  { [p \in ProjectFiles |->
       IF p = resolve(targetPath) /\ p = <<"/", "w", "a.sol">> THEN f ELSE "good"] :
      f \in IF has(view(multi, i).sources, resolve(targetPath)) THEN {"good"}
            ELSE {"good", "unreadable"} }

GetSourceOn ==
  \E i \in Pools, targetPath \in PoolPaths : \E w \in worldsOn(i, targetPath) :
    finishOn(i, getSource(view(multi, i), w, targetPath),
             getSource(multi.alone[i], w, targetPath))

GetASTOn ==
  \E i \in Pools, targetPath \in PoolPaths : \E w \in worldsOn(i, targetPath) :
    finishOn(i, getAST(view(multi, i), w, targetPath),
             getAST(multi.alone[i], w, targetPath))

GetTargetMapOn ==
  \E i \in Pools, targetPath \in PoolPaths : \E w \in worldsOn(i, targetPath) :
    finishOn(i, getTargetMap(view(multi, i), w, targetPath),
             getTargetMap(multi.alone[i], w, targetPath))

GetFunctionMapOn ==
  \E i \in Pools, targetPath \in PoolPaths, targetName \in TargetNames :
    \E w \in worldsOn(i, targetPath) :
      finishOn(i, getFunctionMap(view(multi, i), w, targetPath, targetName),
               getFunctionMap(multi.alone[i], w, targetPath, targetName))

GetCFGOn ==
  \E i \in Pools, targetPath \in PoolPaths, targetName \in TargetNames :
    \E w \in worldsOn(i, targetPath) :
      finishOn(i, getCFG(view(multi, i), w, targetPath, targetName),
               getCFG(multi.alone[i], w, targetPath, targetName))

CreateTargetOn ==
  \E i \in Pools, targetPath \in PoolPaths, targetName \in TargetNames :
    \E w \in worldsOn(i, targetPath) :
      finishOn(i, createTarget(view(multi, i), w, targetPath, targetName),
               createTarget(multi.alone[i], w, targetPath, targetName))

NextPools ==
  \/ GetSourceOn
  \/ GetASTOn
  \/ GetTargetMapOn
  \/ GetFunctionMapOn
  \/ GetCFGOn
  \/ CreateTargetOn

SpecPools == InitPools /\ [][NextPools]_vars

\* --------------------------------------------- SolidityLauncher.run, by segment

\* The maps that loadTargets returns hold entries (file, list of target names)
\* in insertion order; a list may hold "*".
mapKeys(m) == [i \in 1..Len(m) |-> m[i][1]]

mapHas(m, k) == \E i \in 1..Len(m) : m[i][1] = k

mapGet(m, k) == m[CHOOSE i \in 1..Len(m) : m[i][1] = k][2]

includes(list, x) == x \in SeqToSet(list)

\* The maps with the lists of Lists for the files of Files, in any order.
EntryMaps(Files, Lists) ==
  { m \in UNION { [1..n -> Files \X Lists] : n \in 0..Cardinality(Files) } :
      \A i, j \in 1..Len(m) : i # j => m[i][1] # m[j][1] }

IncludedMaps ==
  EntryMaps({FileA, FileB}, { <<"*">>, <<"A">>, <<"A", "B">>, <<"DoesNotExist">> })

ExcludedMaps ==
  { m \in EntryMaps({FileA, FileB}, { <<"*">>, <<"B">> }) :
      \A i \in 1..Len(m) : m[i] # <<FileB, <<"B">>>> }

\* What a collaborator outside the pool throws (or rejects with).
Rejection(callee) == [name |-> "Rejection", message |-> <<callee>>]

\* Line 505 (and 381): TargetPool (lines 40-221) has no getImportDependencies.
NotAFunction ==
  [name |-> "TypeError", message |-> <<"targetPool.getImportDependencies is not a function">>]

\* Lines 351-367: the tests that let a target of the file through.
selected(included, excluded, targetPath, target) ==
  /\ ( \/ includes(mapGet(included, targetPath), "*")
       \/ includes(mapGet(included, targetPath), target) )
  /\ ~( /\ mapHas(excluded, targetPath)
        /\ ( \/ includes(mapGet(excluded, targetPath), "*")
             \/ includes(mapGet(excluded, targetPath), target) ) )

RECURSIVE loadSources(_, _, _)
\* Lines 302-316: getSource for every key of included, then of excluded.
loadSources(r, w, paths) ==
  IF ~r.ok \/ paths = << >> THEN r
  ELSE loadSources(getSource(r.s, w, Head(paths)), w, Tail(paths))

\* testTarget(targetPool, targetPath, target, ...): the getCFG of line 472,
\* the getAST of line 493, the getCFG of line 494 and the
\* getImportDependencies of line 505; what one of them throws leaves
\* testTarget (line 648).
testTarget(s, w, targetPath, target) ==
  LET cfg == getCFG(s, w, targetPath, target)
  IN IF ~cfg.ok THEN cfg
     ELSE LET ast == getAST(cfg.s, w, targetPath)
          IN IF ~ast.ok THEN ast
             ELSE LET again == getCFG(ast.s, w, targetPath, target)
                  IN IF ~again.ok THEN again ELSE R(again.s, FALSE, NotAFunction)

InitLauncher ==
  /\ pool = constructor
  /\ last = [op |-> "constructor"]
  /\ returned = NothingReturned
  /\ project = OneFileProject
  /\ sched = NoTasks
  /\ an = NoAnalysis
  /\ multi = NoPools
  /\ stats = NoStatistics
  /\ launcher \in
       { [ pc |-> "configure", end |-> "running",
           config |-> [help |-> h, version |-> v],
           included |-> i, excluded |-> x, disk |-> w,
           api |-> FALSE, server |-> FALSE,
           files |-> << >>, targetPath |-> << >>, names |-> {},
           searched |-> << >>, calls |-> << >>, error |-> [name |-> "none"] ] :
         h \in BOOLEAN, v \in BOOLEAN, i \in IncludedMaps, x \in ExcludedMaps,
         w \in { d \in Worlds : d[FileB] \in {"good", "unreadable"} /\ d[FileC] = "good" } }

Beside == UNCHANGED << last, returned, project, sched, an, multi, stats >>

\* Line 445-448: the catch block keeps the error; the cleanup follows.
caught(l, e) == [l EXCEPT !.pc = "tearDown", !.error = e]

\* run() is over.
ended(l, how) == [l EXCEPT !.pc = "ended", !.end = how]

\* The cleanup of lines 197-201 and 224-231, inside the try block: either call
\* may reject, which the catch block catches.
exit(l, rejecting, how) ==
  CASE rejecting = "tearDownTempFolders" ->
         caught([l EXCEPT !.calls = Append(@, "tearDownTempFolders")],
                Rejection("tearDownTempFolders"))
    [] rejecting = "finish" ->
         caught([l EXCEPT !.calls = @ \o <<"tearDownTempFolders", "finish">>],
                Rejection("finish"))
    [] OTHER ->
         ended([l EXCEPT !.calls = @ \o <<"tearDownTempFolders", "finish">>], how)

\* Lines 120-172: createTruffleConfig is awaited outside the try block; the
\* configuration and the user interface are set up inside it; --help returns.
Configure ==
  /\ launcher.pc = "configure"
  /\ \E outcome \in {"rejects", "throws", "goes on"} :
       launcher' =
         CASE outcome = "rejects" ->
                ended([launcher EXCEPT !.error = Rejection("createTruffleConfig")], "rejected")
           [] outcome = "throws" -> caught(launcher, Rejection("normalizeConfig"))
           [] OTHER -> IF launcher.config.help THEN ended(launcher, "returned")
                       ELSE [launcher EXCEPT !.pc = "launch"]
  /\ UNCHANGED pool
  /\ Beside

\* Lines 172-186: api is assigned, then the server is started and asked for
\* its accounts.
Launch ==
  /\ launcher.pc = "launch"
  /\ \E rejecting \in {"API", "ganache", "getAccounts", "none"} :
       launcher' =
         CASE rejecting = "API" -> caught(launcher, Rejection("API"))
           [] rejecting = "ganache" ->
                caught([launcher EXCEPT !.api = TRUE], Rejection("ganache"))
           [] rejecting = "getAccounts" ->
                caught([launcher EXCEPT !.api = TRUE, !.server = TRUE],
                       Rejection("getAccounts"))
           [] OTHER -> [launcher EXCEPT !.api = TRUE, !.server = TRUE, !.pc = "version"]
  /\ UNCHANGED pool
  /\ Beside

\* Lines 189-202: --version reports, cleans up and returns.
Version ==
  /\ launcher.pc = "version"
  /\ IF launcher.config.version
     THEN \E rejecting \in {"tearDownTempFolders", "finish", "none"} :
            launcher' = exit(launcher, rejecting, "returned")
     ELSE launcher' = [launcher EXCEPT !.pc = "targets"]
  /\ UNCHANGED pool
  /\ Beside

\* Lines 204-232: the targets are loaded; without an included file the run
\* cleans up and exits the process.
LoadTargets ==
  /\ launcher.pc = "targets"
  /\ \/ launcher' = caught(launcher, Rejection("onServerReady"))
     \/ IF launcher.included = << >>
        THEN \E rejecting \in {"tearDownTempFolders", "finish", "none"} :
               launcher' = exit(launcher, rejecting, "exited")
        ELSE launcher' = [launcher EXCEPT !.pc = "instrument"]
  /\ UNCHANGED pool
  /\ Beside

\* Lines 234-343: the pool is constructed, the sources of the included and the
\* excluded files are taken from it, instrumented, saved and compiled.
Instrument ==
  /\ launcher.pc = "instrument"
  /\ LET r == loadSources(R(constructor, TRUE, [kind |-> "none"]), launcher.disk,
                          mapKeys(launcher.included) \o mapKeys(launcher.excluded))
     IN /\ pool' = r.s
        /\ IF ~r.ok THEN launcher' = caught(launcher, r.val)
           ELSE \/ launcher' = caught(launcher, Rejection("compile"))
                \/ launcher' = [launcher EXCEPT !.pc = "file",
                                                !.files = mapKeys(launcher.included)]
  /\ Beside

\* Lines 345-348: the next included file, and its target map.
NextFile ==
  /\ launcher.pc = "file"
  /\ IF launcher.files = << >>
     THEN /\ launcher' = [launcher EXCEPT !.pc = "suite"]
          /\ UNCHANGED pool
     ELSE LET r == getTargetMap(pool, launcher.disk, Head(launcher.files))
          IN /\ pool' = r.s
             /\ launcher' =
                  IF ~r.ok THEN caught(launcher, r.val)
                  ELSE [launcher EXCEPT !.pc = "target",
                                        !.targetPath = Head(launcher.files),
                                        !.files = Tail(launcher.files),
                                        !.names = r.val.names]
  /\ Beside

\* Lines 349-396: the next target of the file; one that the tests let through
\* is searched, and what testTarget throws ends the loop.
NextTarget ==
  /\ launcher.pc = "target"
  /\ IF launcher.names = {}
     THEN /\ launcher' = [launcher EXCEPT !.pc = "file"]
          /\ UNCHANGED pool
     ELSE \E target \in launcher.names :
            IF ~selected(launcher.included, launcher.excluded, launcher.targetPath, target)
            THEN /\ launcher' = [launcher EXCEPT !.names = @ \ {target}]
                 /\ UNCHANGED pool
            ELSE LET r == testTarget(pool, launcher.disk, launcher.targetPath, target)
                     l == [launcher EXCEPT
                             !.names = @ \ {target},
                             !.searched = Append(@, <<launcher.targetPath, target>>)]
                 IN \/ /\ launcher' = caught(l, Rejection("createDirectoryStructure"))
                       /\ UNCHANGED pool
                    \/ /\ pool' = r.s
                       \* line 381 calls getImportDependencies again
                       /\ launcher' = caught(l, IF r.ok THEN NotAFunction ELSE r.val)
  /\ Beside

\* Lines 399-444: the suite is written and run, the report is made.  What
\* truffle.test.run throws is caught at lines 432-436.
BuildSuite ==
  /\ launcher.pc = "suite"
  /\ \/ launcher' = caught(launcher, Rejection("createSuite"))
     \/ launcher' = [launcher EXCEPT !.pc = "tearDown"]
  /\ UNCHANGED pool
  /\ Beside

\* Line 451, after the catch block.
TearDown ==
  /\ launcher.pc = "tearDown"
  /\ \/ launcher' = ended([launcher EXCEPT !.calls = Append(@, "tearDownTempFolders"),
                                           !.error = Rejection("tearDownTempFolders")],
                          "rejected")
     \/ launcher' = [launcher EXCEPT !.calls = Append(@, "tearDownTempFolders"),
                                     !.pc = "finish"]
  /\ UNCHANGED pool
  /\ Beside

\* Line 454: api.finish(), on an api that line 173 may not have assigned.
ShutDown ==
  /\ launcher.pc = "finish"
  /\ IF ~launcher.api
     THEN launcher' = ended([launcher EXCEPT !.error = TypeError], "rejected")
     ELSE \/ launcher' = ended([launcher EXCEPT !.calls = Append(@, "finish"),
                                                !.error = Rejection("finish")],
                               "rejected")
          \/ launcher' = ended([launcher EXCEPT !.calls = Append(@, "finish")], "returned")
  /\ UNCHANGED pool
  /\ Beside

NextLauncher ==
  \/ Configure
  \/ Launch
  \/ Version
  \/ LoadTargets
  \/ Instrument
  \/ NextFile
  \/ NextTarget
  \/ BuildSuite
  \/ TearDown
  \/ ShutDown

SpecLauncher == InitLauncher /\ [][NextLauncher]_vars

\* ------------------------------------ collectProbeCoverageData, by objective

\* A trace of an execution result: the type of the instrumentation point, its
\* line (one of two), its hits, and the contract that the last segment of its
\* contractPath names (<contract>.sol).
ProbeTraces ==
  [ type : {"probePre", "probePost"}, line : {1, 2}, hits : {0, 1},
    contract : {"A", "B"} ]

\* An objective of the archive, with the subject of the search and the traces
\* of the test that covers it.
Objectives ==
  [ subject : {"A"},
    traces : { T \in SUBSET ProbeTraces : Cardinality(T) <= MaxTraces } ]

InitProbes ==
  /\ pool = constructor
  /\ last = [op |-> "constructor"]
  /\ returned = NothingReturned
  /\ project = OneFileProject
  /\ sched = NoTasks
  /\ an = NoAnalysis
  /\ multi = NoPools
  /\ launcher = NoRun
  \* lines 742-743, for an archive of objectives in order
  /\ stats \in { [ at |-> "loop", archive |-> a, i |-> 1, total |-> 0, covered |-> {},
                   recorded |-> << >> ] :
                 a \in UNION { [1..n -> Objectives] : n \in 0..MaxObjectives } }

Outside == UNCHANGED << pool, last, returned, project, sched, an, multi, launcher >>

\* Lines 746-772, for one objective: total is assigned, covered is added to.
iterate(st, objective) ==
  LET traces     == { e \in objective.traces : e.contract = objective.subject }
      preTraces  == { e \in traces : e.type = "probePre" /\ e.hits > 0 }
      postTraces == { e \in traces : e.type = "probePost" }
  IN [st EXCEPT
        !.i = @ + 1,
        !.total = Cardinality(postTraces) * 2,
        !.covered = @ \cup { <<postTrace.line, postTrace.hits > 0>> :
                              postTrace \in { e \in postTraces :
                                                \E trace \in preTraces : e.line = trace.line } }]

\* Line 745: the next objective of the archive.
ProbeIteration ==
  /\ stats.at = "loop"
  /\ stats.i <= Len(stats.archive)
  /\ stats' = iterate(stats, stats.archive[stats.i])
  /\ Outside

\* Lines 775-785: the three variables are recorded; the coverage is the pair
\* (numerator, denominator) of the quotient.
RecordProbes ==
  /\ stats.at = "loop"
  /\ stats.i > Len(stats.archive)
  /\ stats' = [stats EXCEPT
                 !.at = "recorded",
                 !.recorded = [ COVERED_PROBES |-> Cardinality(stats.covered),
                                TOTAL_PROBES   |-> stats.total,
                                PROBE_COVERAGE |-> IF stats.total > 0
                                                   THEN <<Cardinality(stats.covered), stats.total>>
                                                   ELSE <<0, 1>> ]]
  /\ Outside

NextProbes ==
  \/ ProbeIteration
  \/ RecordProbes

SpecProbes == InitProbes /\ [][NextProbes]_vars

\* ------------------------------------------------------------------ claims

GeneratorErrors == { "IOError", "ParseError", "MapError" }

\* The latest call threw error e.
Threw(e) == ~last.ok /\ last.val.name = e

\* The latest call ended in an error of a generator: the file did not load,
\* parse or map.
GeneratorFailed == ~last.ok /\ last.val.name \in GeneratorErrors

\* The file and the key the latest call addressed.
lastFile == resolve(last.path)

lastKey == Key(last.path, last.name)

\* Every entry of the file caches and the Target cache is still there, bound
\* to the same instance, after the step.
EntriesKept ==
  /\ \A c \in FileCaches : \A k \in DOMAIN pool[c] :
       has(pool'[c], k) /\ pool'[c][k] = pool[c][k]
  /\ pool'.targets.defined = pool.targets.defined
  /\ \A k \in DOMAIN pool.targets.map :
       /\ has(pool'.targets.map, k)
       /\ \A n \in DOMAIN pool.targets.map[k] :
            has(pool'.targets.map[k], n)
              /\ pool'.targets.map[k][n] = pool.targets.map[k][n]

\* C1 as stated: all getAST(p) calls return one AST instance, and the source
\* generator is invoked at most once for p.
C1_OneASTOneInvocation ==
  \A p \in AbsPaths :
    Cardinality(returned.ast[p]) <= 1 /\ pool.calls.source[p] <= 1

\* C1, amended: all getAST(p) calls return one AST instance, and the source
\* generator returns a source for p at most once, namely the one that is
\* cached: every other invocation for p threw.
C1_OneASTOneLoad ==
  \A p \in AbsPaths :
    /\ Cardinality(returned.ast[p]) <= 1
    /\ pool.calls.source[p] - pool.failures.source[p] = IF has(pool.sources, p) THEN 1 ELSE 0

\* getAST(p) returned a second time, after a load of p had failed and had
\* been tried again.
C1_Witness ==
  /\ last.op = "getAST" /\ last.ok /\ last.again
  /\ pool.failures.source[lastFile] >= 1
  /\ pool.calls.source[lastFile] >= 2

\* C2: convertAST is invoked at most once per (path, target name), and every
\* getCFG call for a file that loads and parses returns the one CFG instance
\* of its key.
C2_CFGComputedOnce ==
  /\ \A k \in Keys : pool.calls.cfg[k] <= 1 /\ Cardinality(returned.cfg[k]) <= 1
  /\ (last.op = "getCFG" /\ ~GeneratorFailed)
       => (last.ok /\ returned.cfg[lastKey] = {last.val})

\* C3: a createTarget(p, t) that follows a createTarget(p, t) of a declared
\* target in a file that loads, parses and maps returns the Target the first
\* call returned and leaves the pool, its generators' invocation counts
\* included, as it was.
C3_CreateTargetIdempotent ==
  [][ ( /\ last.op = "createTarget" /\ last'.op = "createTarget"
        /\ Key(last'.path, last'.name) = lastKey
        /\ last.name \in Declared(lastFile)
        /\ ~GeneratorFailed /\ ~GeneratorFailed' )
      => ( last.ok /\ last'.ok /\ last'.val = last.val /\ pool' = pool ) ]_vars

\* C4: on a fresh pool, createTarget(p, t) of a declared target t in a file
\* that loads, parses and maps returns a Target, which is then the entry of
\* the target cache under (p, t).
C4_CreateTargetSucceeds ==
  ( /\ last.op = "createTarget" /\ last.fresh
    /\ last.name \in Declared(lastFile)
    /\ ~GeneratorFailed )
  => ( /\ last.ok
       /\ pool.targets.defined
       /\ has(pool.targets.map, lastFile)
       /\ has(pool.targets.map[lastFile], last.name)
       /\ pool.targets.map[lastFile][last.name] = last.val )

\* C5: a getCFG(p, t) that follows the createTarget(p, t) of a declared target
\* returns the CFG of the Target that createTarget returned, without an
\* invocation of convertAST, whatever raw paths the two calls were given.
C5_GetCFGReturnsEmbedded ==
  [][ ( /\ last.op = "createTarget" /\ last'.op = "getCFG"
        /\ Key(last'.path, last'.name) = lastKey
        /\ last.name \in Declared(lastFile)
        /\ ~GeneratorFailed )
      => ( /\ last.ok /\ last'.ok
           /\ last'.val = last.val.controlFlowGraph
           /\ pool'.calls.cfg = pool.calls.cfg ) ]_vars

\* C6: a getFunctionMap(path, targetName) for a name that the target map of
\* the file does not hold throws the error that names the target and the path;
\* it does not return.
C6_UnknownTargetRaises ==
  ( /\ last.op = "getFunctionMap"
    /\ has(pool.targetMap, lastFile)
    /\ last.name \notin pool.targetMap[lastFile].names )
  => ( /\ ~last.ok
       /\ last.val.name = "Error"
       /\ last.val.message[2] = last.name
       /\ last.val.message[4] = last.path )

\* getFunctionMap was asked for a target that the file does not declare.
C6_Witness ==
  /\ last.op = "getFunctionMap" /\ last.name = "DoesNotExist"
  /\ has(pool.targetMap, lastFile)
  /\ ~last.ok

\* C7: a getFunctionMap call that fails for an unknown target leaves every
\* cache entry that existed before the call bound to the same instance.
C7_FailedLookupKeepsEntries ==
  [][ (last'.op = "getFunctionMap" /\ ~last'.ok /\ last'.val.name = "Error")
      => EntriesKept ]_vars

\* getFunctionMap failed for an unknown target of a file whose maps had been
\* generated before the call.
C7_Witness ==
  /\ last.op = "getFunctionMap" /\ Threw("Error")
  /\ last.cached
  /\ has(pool.targetMap, lastFile) /\ has(pool.abstractSyntaxTrees, lastFile)

\* The keys of cache m are canonical absolute paths, at most one per file.
Canonical(m) ==
  /\ \A k \in DOMAIN m : isAbsolute(k) /\ pathResolve(k) = k
  /\ \A k1, k2 \in DOMAIN m : pathResolve(k1) = pathResolve(k2) => k1 = k2

\* C8: the keys of every cache are canonical absolute paths, at most one key
\* per file, and what a getter returned for a raw path is the entry under the
\* canonical path of the file.
C8_KeysCanonical ==
  /\ \A c \in FileCaches : Canonical(pool[c])
  /\ Canonical(pool.targets.map)
  /\ (last.op = "getSource" /\ last.ok)
       => has(pool.sources, lastFile) /\ pool.sources[lastFile] = last.val
  /\ (last.op = "getAST" /\ last.ok)
       => has(pool.abstractSyntaxTrees, lastFile)
            /\ pool.abstractSyntaxTrees[lastFile] = last.val
  /\ (last.op = "getTargetMap" /\ last.ok)
       => has(pool.targetMap, lastFile) /\ pool.targetMap[lastFile] = last.val

\* getSource found, through a raw path that is not canonical, the entry of a
\* file that the call before it had named by another raw path.
C8_Witness ==
  /\ last.op = "getSource" /\ last.ok /\ last.cached /\ last.other
  /\ last.path # lastFile
  /\ DOMAIN pool.sources = {lastFile}

\* C9: no step evicts or replaces an entry of a cache.
C9_EntriesNeverReplaced == [][EntriesKept]_vars

\* getSource returned the cached source of a file after its AST and its maps
\* had been generated.
C9_Witness ==
  /\ last.op = "getSource" /\ last.ok /\ last.cached
  /\ has(pool.abstractSyntaxTrees, lastFile)
  /\ has(pool.functionMaps, lastFile)
  /\ pool.calls.source[lastFile] = 1 + pool.failures.source[lastFile]

\* C10: a call in which a generator throws leaves the cache of that generator
\* without an entry for the file, and when the same call is made again the
\* generator is invoked again.
C10_FailureNotMemoized ==
  [][ /\ (Threw("IOError"))' => ~has(pool'.sources, lastFile')
      /\ (Threw("ParseError"))' => ~has(pool'.abstractSyntaxTrees, lastFile')
      /\ (Threw("MapError"))' =>
           ~has(pool'.targetMap, lastFile') /\ ~has(pool'.functionMaps, lastFile')
      /\ ( /\ GeneratorFailed
           /\ last'.op = last.op /\ lastFile' = lastFile /\ last'.name = last.name )
         => /\ Threw("IOError") =>
                 pool'.calls.source[lastFile] = pool.calls.source[lastFile] + 1
            /\ Threw("ParseError") =>
                 pool'.calls.ast[lastFile] = pool.calls.ast[lastFile] + 1
            /\ Threw("MapError") =>
                 pool'.calls.map[lastFile] = pool.calls.map[lastFile] + 1 ]_vars

\* The parser threw again when the call in which it had thrown was repeated.
C10_Witness ==
  /\ Threw("ParseError")
  /\ pool.failures.ast[lastFile] = 2
  /\ ~has(pool.abstractSyntaxTrees, lastFile)

\* C11 as stated: over the getTargetMap and getFunctionMap calls, the
\* target-map generator is invoked at most once for a file, and every call
\* that misses the map caches invokes it once and leaves its result cached.
C11_MapGeneratorInvokedOnce ==
  [][ /\ \A p \in ProjectFiles : pool'.calls.map[p] <= 1
      /\ (last'.op \in {"getTargetMap", "getFunctionMap"}
            /\ ~has(pool.targetMap, lastFile'))
           => /\ pool'.calls.map[lastFile'] = pool.calls.map[lastFile'] + 1
              /\ has(pool'.targetMap, lastFile') ]_vars

\* C11, amended: the target-map generator returns maps for a file at most
\* once, and the two map caches then hold them both: every other invocation
\* threw.  A call invokes it at most once, and only on a miss of both caches
\* for the file it addresses; what getTargetMap returns is the cached entry.
C11_MapsGeneratedOnce ==
  [][ /\ \A p \in ProjectFiles :
           /\ pool'.calls.map[p] - pool'.failures.map[p]
                = IF has(pool'.targetMap, p) THEN 1 ELSE 0
           /\ has(pool'.targetMap, p) <=> has(pool'.functionMaps, p)
           /\ pool'.calls.map[p] <= pool.calls.map[p] + 1
           /\ pool'.calls.map[p] = pool.calls.map[p] + 1
                => /\ p = lastFile'
                   /\ ~has(pool.targetMap, p) /\ ~has(pool.functionMaps, p)
      /\ (last'.op \in {"getTargetMap", "getFunctionMap"} /\ last'.ok)
           => /\ has(pool'.targetMap, lastFile') /\ has(pool'.functionMaps, lastFile')
              /\ last'.op = "getTargetMap" => last'.val = pool'.targetMap[lastFile'] ]_vars

\* getFunctionMap returned the functions of a target from maps that an earlier
\* call had generated: the generator has been invoked once for the file.
C11_Witness ==
  /\ last.op = "getFunctionMap" /\ last.ok /\ last.cached
  /\ has(pool.targetMap, lastFile)
  /\ pool.calls.map[lastFile] = 1

\* The keys (method, file) for which task t has observed a miss and not yet
\* stored the value.
missesOf(t) ==
  { <<sched.tasks[t].stack[i].method, sched.tasks[t].stack[i].path>> :
      i \in { j \in 1..Len(sched.tasks[t].stack) :
                sched.tasks[t].stack[j].pc \in {"call", "generate", "store"} } }

\* C12: while one request is between its miss for a key and its store, no
\* other request is between a miss for that key and its store; two requests
\* that return for the same getter and file return the same instance, which is
\* the entry of the cache.
C12_RequestsSerialized ==
  /\ \A t, u \in Tasks : t # u => missesOf(t) \cap missesOf(u) = {}
  /\ \A t \in Tasks :
       sched.tasks[t].status = "returned"
         => /\ has(pool[CacheOf(sched.tasks[t].method)], resolve(sched.tasks[t].path))
            /\ sched.tasks[t].val
                 = pool[CacheOf(sched.tasks[t].method)][resolve(sched.tasks[t].path)]
            /\ \A u \in Tasks :
                 ( /\ sched.tasks[u].status = "returned"
                   /\ sched.tasks[u].method = sched.tasks[t].method
                   /\ resolve(sched.tasks[u].path) = resolve(sched.tasks[t].path) )
                 => sched.tasks[u].val = sched.tasks[t].val

\* Two requests for the AST of one file, named by two raw paths, have both
\* returned, after one parse.
C12_Witness ==
  \E t, u \in Tasks :
    /\ t # u
    /\ sched.tasks[t].status = "returned" /\ sched.tasks[u].status = "returned"
    /\ sched.tasks[t].method = "getAST" /\ sched.tasks[u].method = "getAST"
    /\ sched.tasks[t].path # sched.tasks[u].path
    /\ resolve(sched.tasks[t].path) = resolve(sched.tasks[u].path)
    /\ pool.calls.ast[resolve(sched.tasks[t].path)] = 1

\* C13: a createTarget(path, name) of a declared target in a file that loads,
\* parses and maps returns a Target whose file path is the canonical path of
\* the file and whose linking graph holds that path, whatever raw path the
\* call was given.
C13_LinkingGraphHasOwnFile ==
  ( /\ last.op = "createTarget"
    /\ last.name \in Declared(lastFile)
    /\ ~GeneratorFailed )
  => ( /\ last.ok
       /\ last.val.path = lastFile
       /\ lastFile \in last.val.linkingGraph )

\* The file the analysis started from.
rootFile == resolve(an.root)

NoDuplicates(q) == \A i, j \in 1..Len(q) : q[i] = q[j] => i = j

RECURSIVE ImportClosure(_)
\* The files reachable from the files S over the import statements.
ImportClosure(S) ==
  IF UNION { SeqToSet(ImportsOf(f)) : f \in S } \subseteq S THEN S
  ELSE ImportClosure(S \cup UNION { SeqToSet(ImportsOf(f)) : f \in S })

\* The import statements of the project.
importStatements == Sum([f \in ProjectFiles |-> Len(ImportsOf(f))], ProjectFiles)

\* analyzeImports has returned.
importsAnalyzed == an.phase \in {"context", "inheritance", "done", "failed"}

\* C14: analyzeImports ends after at most one iteration for the root and one
\* for each import statement, and an iteration or the return is always
\* possible until then; no file is visited twice; the graph it returns holds
\* the root first and every file reachable over the import statements, cyclic
\* or not, exactly once, with the import edges between them; and the pool
\* loads and parses a file at most once over the whole analysis.
C14_ImportsTerminate ==
  /\ an.phase = "imports"
       => /\ NoDuplicates(an.visited)
          /\ an.steps <= 1 + importStatements
          /\ SeqToSet(an.visited) \subseteq ImportClosure({rootFile})
          /\ \A f \in ProjectFiles :
               pool.calls.ast[f] = IF f \in SeqToSet(an.visited) THEN 1 ELSE 0
          /\ ENABLED (ImportIteration \/ ImportsDone)
  /\ importsAnalyzed
       => /\ NoDuplicates(an.importGraph.nodes)
          /\ an.importGraph.nodes[1] = rootFile
          /\ SeqToSet(an.importGraph.nodes) = ImportClosure({rootFile})
          /\ an.importGraph.edges
               = UNION { { <<f, g>> : g \in SeqToSet(ImportsOf(f)) } :
                           f \in ImportClosure({rootFile}) }
  /\ \A f \in ProjectFiles : pool.calls.ast[f] <= 1 /\ pool.calls.source[f] <= 1

\* analyzeImports has returned for a.sol, named by a raw path, in a project
\* where a.sol imports b.sol and b.sol imports a.sol: the graph is a.sol, b.sol.
C14_Witness ==
  /\ an.phase = "context"
  /\ an.root # rootFile /\ rootFile = FileA
  /\ ImportsOf(FileA) = <<FileB>> /\ ImportsOf(FileB) = <<FileA>>
  /\ an.importGraph.nodes = <<FileA, FileB>>
  /\ pool.calls.ast[FileA] = 1 /\ pool.calls.ast[FileB] = 1

\* The files among S that declare target name n.
DeclaringFiles(n, S) == { f \in S : n \in Declared(f) }

\* The parents that the declarations of n in the files S name.
ParentsIn(n, S) == UNION { SeqToSet(DeclaredParents(f, n)) : f \in DeclaringFiles(n, S) }

RECURSIVE InheritanceChain(_, _)
\* The targets N and their ancestors, over the declarations of the files S.
InheritanceChain(N, S) ==
  IF UNION { ParentsIn(n, S) : n \in N } \subseteq N THEN N
  ELSE InheritanceChain(N \cup UNION { ParentsIn(n, S) : n \in N }, S)

\* The analysed target has a resolvable, acyclic inheritance chain in an
\* unambiguous project: every name is declared by at most one reachable file,
\* the target and its ancestors are declared, and none is its own ancestor.
wellFormed ==
  /\ \A n \in {"A", "B"} :
       Cardinality(DeclaringFiles(n, ImportClosure({rootFile}))) <= 1
  /\ \A n \in InheritanceChain({an.name}, ImportClosure({rootFile})) :
       /\ DeclaringFiles(n, ImportClosure({rootFile})) # {}
       /\ n \notin InheritanceChain(ParentsIn(n, ImportClosure({rootFile})),
                                    ImportClosure({rootFile}))

\* C15: for a target with a resolvable, acyclic chain in an unambiguous
\* project the analysis ends with a linking graph, and a linking graph is the
\* files reachable over the imports together with the declaring file of every
\* target on the inheritance chain: a parent declared in a file that is
\* reached only through another file's import is included.
C15_LinkingIncludesParents ==
  /\ (an.phase \in {"done", "failed"} /\ wellFormed) => an.phase = "done"
  /\ an.phase = "done"
       => /\ an.linkingGraph =
               ImportClosure({rootFile})
                 \cup UNION { DeclaringFiles(n, ImportClosure({rootFile})) :
                                n \in InheritanceChain({an.name}, ImportClosure({rootFile})) }
          /\ rootFile \in an.linkingGraph
          /\ \A n \in InheritanceChain({an.name}, ImportClosure({rootFile})) :
               \E f \in an.linkingGraph : n \in Declared(f)

\* The linking graph of A is a.sol, b.sol, c.sol where A of a.sol is B, a.sol
\* imports b.sol only, b.sol imports c.sol, and c.sol declares B.
C15_Witness ==
  /\ an.phase = "done" /\ an.name = "A" /\ rootFile = FileA
  /\ DeclaredParents(FileA, "A") = <<"B">>
  /\ ImportsOf(FileA) = <<FileB>> /\ FileC \in SeqToSet(ImportsOf(FileB))
  /\ DeclaringFiles("B", ProjectFiles) = {FileC}
  /\ FileC \in an.linkingGraph

\* Two files of the import graph declare one name.
ambiguous ==
  \E n \in {"A", "B"} :
    Cardinality(DeclaringFiles(n, SeqToSet(an.importGraph.nodes))) >= 2

\* C16: when two files of the import graph declare a target of the same name,
\* analyzeContext does not return a context: it fails with the
\* AmbiguousTargetError that names the target and the two files that declare
\* it, and until then the context holds no name of a file that clashes.
C16_AmbiguousTargetRaises ==
  (importsAnalyzed /\ ambiguous)
  => /\ an.phase \in {"context", "failed"}
     /\ an.phase = "failed"
          => /\ an.error.name = "AmbiguousTargetError"
             /\ an.error.message[2] # an.error.message[3]
             /\ {an.error.message[2], an.error.message[3]}
                  \subseteq SeqToSet(an.importGraph.nodes)
             /\ an.error.message[1]
                  \in Declared(an.error.message[2]) \cap Declared(an.error.message[3])
     /\ \A n \in DOMAIN an.context :
          /\ n \in Declared(an.context[n].file)
          /\ an.phase = "context" =>
               \A f \in SeqToSet(an.importGraph.nodes) \ SeqToSet(an.work) :
                 n \in Declared(f) => f = an.context[n].file

\* analyzeContext failed for a.sol, which declares A and imports b.sol, because
\* a file reached through b.sol declares A as well.
C16_Witness ==
  /\ an.phase = "failed" /\ an.error.name = "AmbiguousTargetError"
  /\ rootFile = FileA /\ ImportsOf(FileA) = <<FileB>>
  /\ an.error.message = <<"A", FileA, FileC>>

\* The parents of n in the context.
contextParents(n) == IF has(an.context, n) THEN SeqToSet(an.context[n].parents) ELSE {}

RECURSIVE ContextChain(_)
\* The targets N and their ancestors, over the context.
ContextChain(N) ==
  IF UNION { contextParents(n) : n \in N } \subseteq N THEN N
  ELSE ContextChain(N \cup UNION { contextParents(n) : n \in N })

\* A target on the chain of the analysed target is its own ancestor.
cyclic == \E n \in ContextChain({an.name}) : n \in ContextChain(contextParents(n))

RECURSIVE chainsUpTo(_, _)
\* The sequences of at most k out of n names.
chainsUpTo(n, k) == IF k = 0 THEN 1 ELSE (n ^ k) + chainsUpTo(n, k - 1)

\* C17: analyzeInheritance ends: the chain of every work item has no name
\* twice, so it is no longer than the context has names, and the iterations
\* are at most the chains there are; an iteration or the return is always
\* possible until then.  When the chain of the target holds a cycle and every
\* name on it is in the context, the analysis fails with InheritanceCycleError
\* and returns no graph; it fails so only for a cycle.
C17_InheritanceTerminates ==
  /\ an.phase = "inheritance"
       => /\ \A i \in 1..Len(an.work) :
               /\ NoDuplicates(an.work[i].chain)
               /\ Len(an.work[i].chain) <= Cardinality(DOMAIN an.context)
          /\ an.steps <= chainsUpTo(Cardinality(DOMAIN an.context),
                                    Cardinality(DOMAIN an.context))
          /\ ENABLED (InheritanceIteration \/ Link)
  /\ an.phase = "done" => ~cyclic
  /\ (an.phase = "failed" /\ an.error.name = "InheritanceCycleError")
       => /\ cyclic
          /\ ~NoDuplicates(an.error.message)
  /\ ( /\ an.phase = "failed" /\ an.error.name # "AmbiguousTargetError"
       /\ cyclic /\ ContextChain({an.name}) \subseteq DOMAIN an.context )
       => an.error.name = "InheritanceCycleError"

\* The analysis of B failed with InheritanceCycleError in a project where A is
\* B and B is A.
C17_Witness ==
  /\ an.phase = "failed" /\ an.error.name = "InheritanceCycleError"
  /\ an.name = "B" /\ an.steps >= 2
  /\ an.error.message = <<"B", "A", "B">>

\* C18: a method of one pool leaves every cache and every count of the other
\* pool as it was; and each pool is, after every call, in the state of a pool
\* that is alone in the process and was given the same calls, every call
\* having ended for it in the same way.
C18_PoolsIndependent ==
  [][ /\ \A j \in Pools \ {multi'.acted} : view(multi', j) = view(multi, j)
      /\ multi'.agree
      /\ \A i \in Pools : view(multi', i) = multi'.alone[i] ]_vars

\* Pool 2 has loaded a.sol itself although pool 1 holds its source and AST.
C18_Witness ==
  /\ multi.acted = 2
  /\ has(view(multi, 1).abstractSyntaxTrees, FileA)
  /\ has(view(multi, 2).sources, FileA)
  /\ ~has(view(multi, 2).abstractSyntaxTrees, FileA)
  /\ view(multi, 2).calls.source[FileA] = 1
  /\ view(multi, 1).calls.source[FileA] = 1

\* C19: when createTarget(p, t2) follows createTarget(p, t1) for two declared
\* targets of one file that loads, parses and maps, both calls return, and the
\* target cache then holds both Targets, the one of (p, t1) being the instance
\* the first call returned.
C19_OtherTargetKept ==
  [][ ( /\ last.op = "createTarget" /\ last'.op = "createTarget"
        /\ lastFile' = lastFile /\ last'.name # last.name
        /\ last.name \in Declared(lastFile) /\ last'.name \in Declared(lastFile)
        /\ ~GeneratorFailed /\ ~GeneratorFailed' )
      => ( /\ last.ok /\ last'.ok
           /\ pool'.targets.defined
           /\ has(pool'.targets.map, lastFile)
           /\ has(pool'.targets.map[lastFile], last.name)
           /\ has(pool'.targets.map[lastFile], last'.name)
           /\ pool'.targets.map[lastFile][last.name] = last.val
           /\ pool'.targets.map[lastFile][last'.name] = last'.val ) ]_vars

\* C20: a createTarget(path, targetName) for a name that the file, which
\* loads, parses and maps, does not declare throws the unknown-target error of
\* getFunctionMap; the call starts no dependency analysis, builds no CFG and
\* leaves the target cache as it was.
C20_UnknownTargetBeforeAnalysis ==
  [][ ( /\ last'.op = "createTarget"
        /\ has(pool'.functionMaps, lastFile')
        /\ last'.name \notin pool'.functionMaps[lastFile'].names )
      => ( /\ ~last'.ok
           /\ last'.val = TargetNotFound(last'.name, lastFile')
           /\ pool'.calls.analyzer = pool.calls.analyzer
           /\ pool'.calls.cfg = pool.calls.cfg
           /\ pool'.targets = pool.targets ) ]_vars

\* createTarget was asked for a target that the file does not declare, on a
\* pool that had nothing cached: the file was loaded, parsed and mapped by the
\* call, and no analysis was started.
C20_Witness ==
  /\ last.op = "createTarget" /\ last.name = "DoesNotExist" /\ last.fresh
  /\ Threw("Error")
  /\ has(pool.functionMaps, lastFile)
  /\ pool.calls.analyzer[lastFile] = 0

\* The frames of getAST that are at (or past) the parser call of lines 161-162.
parsing ==
  { f \in UNION { SeqToSet(sched.tasks[t].stack) : t \in Tasks } :
      f.method = "getAST" /\ f.pc = "generate" }

\* C21: a getAST that is about to invoke the parser holds the source that the
\* source cache holds for the file, so the parser has only been invoked for
\* files whose source is cached, and an AST that is cached is the tree of the
\* cached source.  For a file that cannot be loaded the parser is not invoked
\* and no AST is stored: the getAST throws what the load threw.  A getAST that
\* throws what the parser threw leaves the source cached and no AST.
C21_SourceBeforeParse ==
  /\ \A f \in parsing :
       has(pool.sources, f.path) /\ f.val = pool.sources[f.path]
  /\ \A p \in ProjectFiles :
       /\ pool.calls.ast[p] > 0 => has(pool.sources, p)
       /\ has(pool.abstractSyntaxTrees, p)
            => /\ has(pool.sources, p)
               /\ pool.abstractSyntaxTrees[p].source = pool.sources[p]
       /\ sched.disk[p] = "unreadable"
            => pool.calls.ast[p] = 0 /\ ~has(pool.abstractSyntaxTrees, p)
  /\ \A t \in Tasks :
       (sched.tasks[t].status = "threw" /\ sched.tasks[t].method = "getAST")
         => /\ ~has(pool.abstractSyntaxTrees, resolve(sched.tasks[t].path))
            /\ sched.tasks[t].val.name = "IOError"
                 => /\ pool.calls.ast[resolve(sched.tasks[t].path)] = 0
                    /\ ~has(pool.sources, resolve(sched.tasks[t].path))
            /\ sched.tasks[t].val.name = "ParseError"
                 => has(pool.sources, resolve(sched.tasks[t].path))

\* One getAST threw what the parser threw, after a load and a parse of the
\* file, and another threw what the load of its file threw.
C21_Witness ==
  \E t, u \in Tasks :
    /\ sched.tasks[t].status = "threw" /\ sched.tasks[t].method = "getAST"
    /\ sched.tasks[t].val.name = "ParseError"
    /\ pool.calls.source[resolve(sched.tasks[t].path)] = 1
    /\ pool.calls.ast[resolve(sched.tasks[t].path)] = 1
    /\ has(pool.sources, resolve(sched.tasks[t].path))
    /\ sched.tasks[u].status = "threw" /\ sched.tasks[u].method = "getAST"
    /\ sched.tasks[u].val.name = "IOError"

\* C22: the tree that the target map of a file was generated from, the tree
\* that getAST returns, the tree of the CFG that getCFG returns and the tree of
\* the Target that createTarget returns for a declared target are the entry of
\* the AST cache for the file; getCFG and createTarget, for a file whose tree
\* (and maps) are cached, return such a CFG and such a Target.
C22_OneASTShared ==
  [][ /\ \A p \in ProjectFiles :
           has(pool'.targetMap, p)
             => /\ has(pool'.abstractSyntaxTrees, p)
                /\ pool'.targetMap[p].ast = pool'.abstractSyntaxTrees[p]
      /\ (last'.op = "getAST" /\ last'.ok)
           => last'.val = pool'.abstractSyntaxTrees[lastFile']
      /\ (last'.op = "getCFG" /\ has(pool.abstractSyntaxTrees, lastFile'))
           => /\ last'.ok
              /\ last'.val.ast = pool.abstractSyntaxTrees[lastFile']
      /\ ( /\ last'.op = "createTarget"
           /\ has(pool.abstractSyntaxTrees, lastFile')
           /\ has(pool.functionMaps, lastFile')
           /\ last'.name \in Declared(lastFile') )
           => /\ last'.ok
              /\ last'.val.abstractSyntaxTree = pool.abstractSyntaxTrees[lastFile'] ]_vars

\* C23: the target-map cache and the function-map cache hold the same files,
\* and for each of them the function map has the target names of the target
\* map and comes from the same invocation of the generator on the same tree,
\* the only one for the file that returned.
C23_MapCachesAligned ==
  /\ DOMAIN pool.targetMap = DOMAIN pool.functionMaps
  /\ \A p \in DOMAIN pool.targetMap :
       /\ pool.functionMaps[p].names = pool.targetMap[p].names
       /\ pool.functionMaps[p].id = pool.targetMap[p].id
       /\ pool.functionMaps[p].ast = pool.targetMap[p].ast
       /\ pool.calls.map[p] - pool.failures.map[p] = 1
  /\ \A p \in ProjectFiles \ DOMAIN pool.targetMap :
       pool.calls.map[p] = pool.failures.map[p]

\* getFunctionMap has generated and stored the maps of one file, and the
\* generator has thrown on another, for which neither cache has an entry.
C23_Witness ==
  /\ last.op = "getFunctionMap" /\ last.ok /\ ~last.cached
  /\ has(pool.targetMap, lastFile) /\ has(pool.functionMaps, lastFile)
  /\ \E q \in ProjectFiles :
       /\ pool.failures.map[q] > 0
       /\ ~has(pool.targetMap, q) /\ ~has(pool.functionMaps, q)

\* The pairs that the launcher is to search: the file is a key of included,
\* the file declares the target, the included list of the file names it (or
\* "*"), and the excluded list of the file, if there is one, does not.
toSearch ==
  { k \in Keys :
      /\ mapHas(launcher.included, k[1])
      /\ k[2] \in Declared(k[1])
      /\ ( \/ includes(mapGet(launcher.included, k[1]), "*")
           \/ includes(mapGet(launcher.included, k[1]), k[2]) )
      /\ mapHas(launcher.excluded, k[1])
           => /\ ~includes(mapGet(launcher.excluded, k[1]), "*")
              /\ ~includes(mapGet(launcher.excluded, k[1]), k[2]) }

\* The run got to the loop over the included files, on files that load, parse
\* and map, and no collaborator outside the pool rejected.
undisturbed ==
  /\ ~launcher.config.help /\ ~launcher.config.version
  /\ launcher.included # << >>
  /\ launcher.api /\ launcher.server
  /\ launcher.error.name # "Rejection"
  /\ \A f \in SeqToSet(mapKeys(launcher.included)) \cup SeqToSet(mapKeys(launcher.excluded)) :
       launcher.disk[f] = "good"

\* C24: when such a run has ended, testTarget has been called for exactly the
\* pairs that are to be searched, once for each.
C24_SelectedPairsSearchedOnce ==
  (launcher.pc = "ended" /\ undisturbed)
    => /\ SeqToSet(launcher.searched) = toSearch
       /\ NoDuplicates(launcher.searched)

\* C25: when a run that has started the server has ended, tearDownTempFolders
\* and then api.finish have been called, once each; and the api.finish() of
\* line 454 does not throw for an api that was never assigned.
C25_CleanupOnceThenFinish ==
  /\ (launcher.pc = "ended" /\ launcher.server)
       => launcher.calls = <<"tearDownTempFolders", "finish">>
  /\ ~(launcher.pc = "ended" /\ ~launcher.api /\ launcher.error = TypeError)

\* The probes of the objectives of the archive: two for every probe point (a
\* probePost trace) of the subject's contract, over all objectives.
allProbes ==
  UNION { { <<e.line, b>> : b \in BOOLEAN } :
          e \in { x \in UNION { stats.archive[i].traces : i \in 1..Len(stats.archive) } :
                    x.type = "probePost" /\ x.contract = "A" } }

\* C26: what collectProbeCoverageData records has COVERED_PROBES no larger
\* than TOTAL_PROBES, a total that is not smaller than the number of probes
\* of the objectives of the archive, and a coverage that is at most 1, and 0
\* when there are no probes.
C26_CoveredWithinTotal ==
  stats.at = "recorded"
    => /\ stats.recorded.COVERED_PROBES <= stats.recorded.TOTAL_PROBES
       /\ stats.recorded.TOTAL_PROBES >= Cardinality(allProbes)
       /\ stats.recorded.PROBE_COVERAGE[1] <= stats.recorded.PROBE_COVERAGE[2]
       /\ allProbes = {} => stats.recorded.PROBE_COVERAGE[1] = 0

====
